---------------------------- MODULE Spec2Model ----------------------------
(***************************************************************************)
(* A model of the lights-tuya client library (src/lib.rs): the unit        *)
(* converters of set_brightness and set_color_temperature, the encoder     *)
(* `impl Serialize for TuyaRequest`, the serde decoders of the login,      *)
(* discovery and acknowledgement responses, and the TuyaApi facade with    *)
(* several calls in flight on one instance.                                *)
(***************************************************************************)
EXTENDS Integers, Sequences, FiniteSets, TLC

VARIABLES
    api,      \* the TuyaApi instance: Unauthenticated, or its TuyaApiTokens
    login,    \* the auth.do exchange of TuyaApi::new: the server's reply and the result
    file,     \* the persisted access-token file read by read_from, written by write_to
    calls,    \* per task: the position of its call on the instance
    overflow_checks,  \* the build profile: are integer overflow checks compiled in
    probe     \* a pure function under test: its name, input and output

vars == <<api, login, file, calls, overflow_checks, probe>>

---------------------------------------------------------------------------
(* Bounds of the model *)

\* Kelvin inputs range over 0..MaxKelvin (covers <2700, [2700,6500], >6500)
MaxKelvin == 6600
\* number of tasks sharing one TuyaApi
NTasks == 2
\* longest device list of a discovery response
MaxDevices == 2

---------------------------------------------------------------------------
(* Machine integers *)

\* u8::MAX, the range of the public brightness argument
U8Max == 255
\* a u32 is held as two 16-bit limbs <<hi, lo>>
Limb == 65536

U32(n) == <<n \div Limb, n % Limb>>
U32Max == <<Limb - 1, Limb - 1>>
U32Less(a, b) == a[1] < b[1] \/ (a[1] = b[1] /\ a[2] < b[2])

\* u32::min
min(a, b) == IF a < b THEN a ELSE b

\* a - b on u32 with two's-complement wrap-around (overflow checks off)
wrapping_sub(a, b) ==
    LET lo     == a[2] - b[2]
        borrow == IF lo < 0 THEN 1 ELSE 0
        hi     == a[1] - b[1] - borrow
    IN  <<(hi + Limb) % Limb, (lo + Limb) % Limb>>

---------------------------------------------------------------------------
(* Unit converters *)

\* a variant of set_brightness_value that rounds to nearest instead of truncating
set_brightness_value_rounded(brightness) == (brightness * 200 + U8Max) \div (2 * U8Max)

\* ((brightness as f64 / 255.) * 100.) as u8 : the cast truncates toward zero.
\* For every u8 input the f64 product has the same integer part as the
\* exact quotient 100*b/255.
set_brightness_value(brightness) == (brightness * 100) \div U8Max

KelvinMax == 6500
KelvinMin == 2700
KelvinSpan == 3800
VendorMin == 1000
VendorSpan == 9000

\* Differences d = kelvin - 2700 for which the f64 evaluation of
\* (d / 3800.) * 9000. lands one ulp below the exact integer quotient
\* (d = 19 * 113 and d = 19 * 138), so that the cast yields one less.
F64Shortfall == {2147, 2622}

\* (1000. + ((d as f64) / 3800.) * 9000.) as u32 for a u32 d.
\* d <= 3800 unless the subtraction wrapped; a wrapped d is at least
\* 2^32 - 2700, the f64 value exceeds u32::MAX and the cast saturates.
rescale_as_u32(d) ==
    IF d[1] = 0
    THEN U32(VendorMin + (d[2] * VendorSpan) \div KelvinSpan
             - (IF d[2] \in F64Shortfall THEN 1 ELSE 0))
    ELSE U32Max

\* The temperature expression of set_color_temperature. checked is the
\* build profile: with overflow checks the u32 subtraction panics on
\* underflow, without them it wraps.
set_color_temperature_value(temperature, checked) ==
    LET clamped == U32(min(temperature, KelvinMax))
        base    == U32(KelvinMin)
    IN  IF U32Less(clamped, base) /\ checked
        THEN [panicked |-> TRUE]
        ELSE [panicked |-> FALSE,
              temperature |-> rescale_as_u32(wrapping_sub(clamped, base))]

---------------------------------------------------------------------------
(* JSON values (serde_json::Value) *)

\* a JSON string and a JSON number are different values: "1" is not 1
JStr(s) == <<"string", s>>
JNum(n) == <<"number", n>>
IsJStr(v) == v[1] = "string"
IsJNum(v) == v[1] = "number"

\* Option<T>
None == <<>>
Some(x) == <<x>>

\* the empty JSON object, and an object of one member
EmptyObject == [k \in {} |-> None]
Member(key, v) == [k \in {key} |-> v]

\* a JSON object member that may be missing from the text
OptionalMember(key, values) == {EmptyObject} \cup {Member(key, v) : v \in values}

---------------------------------------------------------------------------
(* Command encoder *)

StateOn == "On"
StateOff == "Off"

\* HsbColor { brightness, saturation, hue }, all u16
HsbColor(h, s, b) == [hue |-> h, saturation |-> s, brightness |-> b]

\* enum TuyaCommand
Discovery == [variant |-> "Discovery"]
TurnOnOff(id, st) == [variant |-> "TurnOnOff", device_id |-> id, state |-> st]
SetBrightness(id, b) == [variant |-> "SetBrightness", device_id |-> id, brightness |-> b]
QueryDevice(id) == [variant |-> "QueryDevice", device_id |-> id]
SetColor(id, c) == [variant |-> "SetColor", device_id |-> id, color |-> c]
SetColorTemperature(id, t) ==
    [variant |-> "SetColorTemperature", device_id |-> id, temperature |-> t]

\* struct TuyaRequest
TuyaRequest(cmd, token) == [command |-> cmd, access_token |-> token]

\* the JSON object built for a SetColor command
color_object(color) ==
    [hue        |-> JNum(U32(color.hue)),
     saturation |-> JNum(U32(color.saturation)),
     brightness |-> JNum(U32(color.brightness))]

\* the match of serialize: <<namespace, name, dev_id, value>>
command_parts(command) ==
    CASE command.variant = "Discovery" ->
            <<"discovery", "Discovery", None, None>>
      [] command.variant = "TurnOnOff" ->
            <<"control", "turnOnOff", Some(command.device_id),
              Some(<<"value", JStr(IF command.state = StateOn THEN "1" ELSE "0")>>)>>
      [] command.variant = "SetBrightness" ->
            <<"control", "brightnessSet", Some(command.device_id),
              Some(<<"value", JNum(U32(command.brightness))>>)>>
      [] command.variant = "QueryDevice" ->
            <<"query", "QueryDevice", Some(command.device_id), None>>
      [] command.variant = "SetColor" ->
            <<"control", "colorSet", Some(command.device_id),
              Some(<<"color", color_object(command.color)>>)>>
      [] command.variant = "SetColorTemperature" ->
            <<"control", "colorTemperatureSet", Some(command.device_id),
              Some(<<"value", JNum(command.temperature)>>)>>

PayloadVersion == 1

\* a variant of serialize that leaves the device id out of the payload
serialize_without_devId(request) ==
    LET parts == command_parts(request.command)
        value == parts[4]
    IN  [header  |-> [payloadVersion |-> PayloadVersion,
                      namespace      |-> parts[1],
                      name           |-> parts[2]],
         payload |-> Member("accessToken", JStr(request.access_token))
                     @@ (IF value = None THEN EmptyObject
                         ELSE Member(value[1][1], value[1][2]))]

\* impl Serialize for TuyaRequest: the RawRequest written to the wire
serialize(request) ==
    LET parts     == command_parts(request.command)
        dev_id    == parts[3]
        value     == parts[4]
    IN  [header  |-> [payloadVersion |-> PayloadVersion,
                      namespace      |-> parts[1],
                      name           |-> parts[2]],
         payload |-> Member("accessToken", JStr(request.access_token))
                     @@ (IF dev_id = None THEN EmptyObject
                         ELSE Member("devId", JStr(dev_id[1])))
                     @@ (IF value = None THEN EmptyObject
                         ELSE Member(value[1][1], value[1][2]))]

---------------------------------------------------------------------------
(* Results and errors *)

\* enum Error { Http, Encoding, Deserializing, Api }
ErrorKinds == {"Http", "Encoding", "Deserializing", "Api"}
Error(kind, msg) == [kind |-> kind, msg |-> msg]

Ok(v) == [ok |-> TRUE, value |-> v]
Err(e) == [ok |-> FALSE, error |-> e]
Unit == "()"

\* impl From<surf::Error> for Error
from_surf_error(msg) == Error("Http", msg)
\* impl From<serde_json::Error> for Error
from_serde_json_error(msg) == Error("Deserializing", msg)

\* A response as the transport hands it over: the call failed, or a body
\* arrived. A body is JSON text: well formed with a top-level object, or not.
TransportFailure == [transport |-> "failed"]
Body(wellformed, object) ==
    [transport |-> "ok", wellformed |-> wellformed, object |-> object]
MalformedBody == Body(FALSE, EmptyObject)
JsonBody(object) == Body(TRUE, object)

JNull == <<"null", "">>

Has(object, key) == key \in DOMAIN object
\* a required String field
IsString(object, key) == Has(object, key) /\ IsJStr(object[key])
\* an Option<String> field: missing, null or a string
IsOptString(object, key) ==
    Has(object, key) => (object[key] = JNull \/ IsJStr(object[key]))
\* an Option<i64> field: missing, null or a number
IsOptInt(object, key) ==
    Has(object, key) => (object[key] = JNull \/ IsJNum(object[key]))
OptField(object, key) ==
    IF Has(object, key) /\ object[key] # JNull THEN Some(object[key][2]) ELSE None

---------------------------------------------------------------------------
(* Login response *)

\* struct TuyaApiTokens, and whether a JSON object deserializes into it
TuyaApiTokens(access, refresh, type, expires) ==
    [access_token |-> access, refresh_token |-> refresh,
     token_type |-> type, expires_in |-> expires]

is_TuyaApiTokens(object) ==
    /\ IsString(object, "access_token")
    /\ IsOptString(object, "refresh_token")
    /\ IsOptString(object, "token_type")
    /\ IsOptInt(object, "expires_in")

to_TuyaApiTokens(object) ==
    TuyaApiTokens(object.access_token[2],
                  OptField(object, "refresh_token"),
                  OptField(object, "token_type"),
                  OptField(object, "expires_in"))

\* the fields of LoginResponse::Error, renamed to camelCase
is_LoginError(object) ==
    IsString(object, "errorMsg") /\ IsString(object, "responseStatus")

\* a variant of deserialize_LoginResponse with the variants declared in the
\* other order: Error is tried before Success
deserialize_LoginResponse_error_first(body) ==
    IF ~body.wellformed
    THEN Err(from_serde_json_error("syntax"))
    ELSE IF is_LoginError(body.object)
    THEN Ok([variant |-> "Error",
             error_msg |-> body.object.errorMsg[2],
             response_status |-> body.object.responseStatus[2]])
    ELSE IF is_TuyaApiTokens(body.object)
    THEN Ok([variant |-> "Success", tokens |-> to_TuyaApiTokens(body.object)])
    ELSE Err(from_serde_json_error("data did not match any variant"))

\* serde_json::from_str::<LoginResponse>: the untagged enum tries its
\* variants in declaration order, Success first, then Error
deserialize_LoginResponse(body) ==
    IF ~body.wellformed
    THEN Err(from_serde_json_error("syntax"))
    ELSE IF is_TuyaApiTokens(body.object)
    THEN Ok([variant |-> "Success", tokens |-> to_TuyaApiTokens(body.object)])
    ELSE IF is_LoginError(body.object)
    THEN Ok([variant |-> "Error",
             error_msg |-> body.object.errorMsg[2],
             response_status |-> body.object.responseStatus[2]])
    ELSE Err(from_serde_json_error("data did not match any variant"))

\* LoginResponse::to_result
to_result(response) ==
    IF response.variant = "Success"
    THEN Ok(response.tokens)
    ELSE Err(Error("Api", response.error_msg))

\* ISO_8859_1.decode(bytes, DecoderTrap::Strict): every byte is a code point
\* of ISO 8859-1, so the strict decoder accepts every body
ISO_8859_1_decode(body) == Ok(body)

\* TuyaApi::new, from the reply of auth.do to its Result
new_result(reply) ==
    IF reply.transport = "failed"
    THEN Err(from_surf_error("transport"))
    ELSE LET data == ISO_8859_1_decode(reply)
         IN  IF ~data.ok
             THEN Err(Error("Encoding", "decoder"))
             ELSE LET parsed == deserialize_LoginResponse(data.value)
                  IN  IF ~parsed.ok THEN parsed ELSE to_result(parsed.value)

---------------------------------------------------------------------------
(* Discovery response *)

\* struct Light { name, device_id }
Light(name, id) == [name |-> name, device_id |-> id]

\* struct LightResponse: five required fields
is_LightResponse(data) ==
    /\ IsString(data, "brightness")
    /\ IsString(data, "color_mode")
    /\ Has(data, "online") /\ data.online \in {<<"bool", TRUE>>, <<"bool", FALSE>>}
    /\ IsString(data, "state")
    /\ Has(data, "color_temp") /\ IsJNum(data.color_temp)

\* enum ScanDevice, internally tagged by dev_type. The tag must name a
\* variant: "light" (the renamed Light) or "Unknown"; Unknown carries no
\* serde(other), so any other tag is an unknown-variant error.
deserialize_ScanDevice(record) ==
    IF ~IsString(record, "dev_type")
    THEN Err("missing field dev_type")
    ELSE IF record.dev_type = JStr("light")
    THEN IF /\ Has(record, "data") /\ is_LightResponse(record.data)
            /\ IsString(record, "name")
            /\ IsString(record, "id")
         THEN Ok([variant |-> "Light", name |-> record.name[2], id |-> record.id[2]])
         ELSE Err("missing field")
    ELSE IF record.dev_type = JStr("Unknown")
    THEN Ok([variant |-> "Unknown"])
    ELSE Err("unknown variant")

\* struct ScanResponse { payload: ScanDevices { devices: Vec<ScanDevice> } },
\* read by recv_json: a body that does not deserialize is a surf::Error
deserialize_ScanResponse(body) ==
    IF ~body.wellformed THEN Err("syntax")
    ELSE IF ~(Has(body.object, "payload") /\ Has(body.object.payload, "devices"))
    THEN Err("missing field")
    ELSE LET records == body.object.payload.devices
             devices == [i \in DOMAIN records |-> deserialize_ScanDevice(records[i])]
         IN  IF \E i \in DOMAIN devices : ~devices[i].ok
             THEN Err("devices")
             ELSE Ok([i \in DOMAIN devices |-> devices[i].value])

\* the filter_map of scan: Light records become Lights, Unknown is dropped
RECURSIVE filter_map(_)
filter_map(devices) ==
    IF devices = <<>> THEN <<>>
    ELSE LET item == Head(devices)
             rest == filter_map(Tail(devices))
         IN  IF item.variant = "Light"
             THEN <<Light(item.name, item.id)>> \o rest
             ELSE rest

\* TuyaApi::scan, from the reply of the skill endpoint to its Result
scan_result(reply) ==
    IF reply.transport = "failed"
    THEN Err(from_surf_error("transport"))
    ELSE LET data == deserialize_ScanResponse(reply)
         IN  IF ~data.ok
             THEN Err(from_surf_error(data.error))
             ELSE Ok(filter_map(data.value))

---------------------------------------------------------------------------
(* Command acknowledgement *)

\* enum ResponseType, internally tagged by code: "SUCCESS" (the renamed
\* Success) or "TargetOffline"
deserialize_ResponseType(header) ==
    IF ~IsString(header, "code")
    THEN Err("missing field code")
    ELSE IF header.code = JStr("SUCCESS") THEN Ok("Success")
    ELSE IF header.code = JStr("TargetOffline") THEN Ok("TargetOffline")
    ELSE Err("unknown variant")

\* struct SetStateResponse { header: ResponseType }, read by recv_json
deserialize_SetStateResponse(body) ==
    IF ~body.wellformed THEN Err("syntax")
    ELSE IF ~Has(body.object, "header") THEN Err("missing field header")
    ELSE deserialize_ResponseType(body.object.header)

\* TuyaApi::send_state_command, from the reply to its Result;
\* format!("{:?}", header) of a unit variant is the variant's name
send_state_command_result(reply) ==
    IF reply.transport = "failed"
    THEN Err(from_surf_error("transport"))
    ELSE LET data == deserialize_SetStateResponse(reply)
         IN  IF ~data.ok
             THEN Err(from_surf_error(data.error))
             ELSE IF data.value = "Success"
                  THEN Ok(Unit)
                  ELSE Err(Error("Api", data.value))

\* TuyaApi::query: recv_string accepts every body
query_result(reply) ==
    IF reply.transport = "failed"
    THEN Err(from_surf_error("transport"))
    ELSE Ok(Unit)

---------------------------------------------------------------------------
(* The facade: commands built by the public methods *)

\* a variant of access_token that hands out the refresh token when there is one
access_token_from_refresh(tokens) ==
    IF tokens.refresh_token = None THEN tokens.access_token ELSE tokens.refresh_token[1]

\* TuyaApiTokens::access_token: a clone of the held string
access_token(tokens) == tokens.access_token

\* TuyaApi::dump_token
dump_token(tokens) == access_token(tokens)

\* TuyaApi::from_token
from_token(token) == TuyaApiTokens(token, None, None, None)

\* AccessToken::read_from: the whole text of the reader, whatever it is
read_from(reader) == reader.text
\* AccessToken::write_to
write_to(token) == [exists |-> TRUE, text |-> token]

\* the TuyaRequest every call builds from its command and the held tokens
request_of(command, tokens) == TuyaRequest(command, access_token(tokens))

set_state_command(light, st) == TurnOnOff(light.device_id, st)
set_brightness_command(light, brightness) ==
    SetBrightness(light.device_id, set_brightness_value(brightness))
set_color_command(light, color) == SetColor(light.device_id, color)
set_color_temperature_command(light, t) == SetColorTemperature(light.device_id, t)
query_command(light) == QueryDevice(light.device_id)

---------------------------------------------------------------------------
(* Inputs of the session model *)

Tasks == 1..NTasks
TokenTexts == {"", "tok123"}
KnownLights == {Light("Lamp", "dev1")}
SessionBrightness == {128}
SessionKelvins == {2000, 4847}
SessionColors == {HsbColor(0, 0, 0)}

LoginSuccess ==
    JsonBody([access_token |-> JStr("tok123"), refresh_token |-> JStr("r1"),
              token_type |-> JStr("bearer"), expires_in |-> JNum(U32(864000))])
LoginEmptyToken == JsonBody([access_token |-> JStr("")])
LoginFailure ==
    JsonBody([errorMsg |-> JStr("bad password"), responseStatus |-> JStr("error")])
SessionLoginReplies ==
    {TransportFailure, MalformedBody, LoginSuccess, LoginEmptyToken, LoginFailure}

LightData ==
    [brightness |-> JStr("255"), color_mode |-> JStr("white"),
     online |-> <<"bool", TRUE>>, state |-> JStr("true"),
     color_temp |-> JNum(U32(4000))]
LightRecord(id, name) ==
    [dev_type |-> JStr("light"), id |-> JStr(id), name |-> JStr(name),
     data |-> LightData]
ScanBody(records) == JsonBody([payload |-> [devices |-> records]])
AckBody(code) == JsonBody([header |-> [code |-> JStr(code)]])

SessionSkillReplies ==
    {TransportFailure, AckBody("SUCCESS"), AckBody("TargetOffline"),
     ScanBody(<<LightRecord("dev1", "Lamp")>>)}

Unauthenticated == [state |-> "Unauthenticated"]
Authenticated(tokens) == [state |-> "Authenticated", tokens |-> tokens]

Idle == [pc |-> "idle"]
Awaiting(op, request) ==
    [pc |-> "awaiting", op |-> op, request |-> request, wire |-> serialize(request)]
Done(op, result) == [pc |-> "done", op |-> op, result |-> result]
Panicked == [pc |-> "panicked"]

NoProbe == [fn |-> "none"]

Init ==
    /\ api = Unauthenticated
    /\ login = [attempted |-> FALSE]
    /\ file \in {[exists |-> FALSE, text |-> ""]} \cup {write_to(t) : t \in TokenTexts}
    /\ calls = [t \in Tasks |-> Idle]
    /\ overflow_checks \in BOOLEAN
    /\ probe = NoProbe

---------------------------------------------------------------------------
(* The facade: construction *)

\* TuyaApi::new
new ==
    /\ api.state = "Unauthenticated"
    /\ ~login.attempted
    /\ \E reply \in SessionLoginReplies :
         LET result == new_result(reply)
         IN  /\ login' = [attempted |-> TRUE, result |-> result]
             /\ api' = IF result.ok THEN Authenticated(result.value) ELSE api
    /\ UNCHANGED <<file, calls, overflow_checks, probe>>

\* TuyaApi::from_token(AccessToken::read_from(file)), as main does when the
\* token file exists
from_token_read_from ==
    /\ api.state = "Unauthenticated"
    /\ ~login.attempted
    /\ file.exists
    /\ api' = Authenticated(from_token(read_from(file)))
    /\ UNCHANGED <<login, file, calls, overflow_checks, probe>>

\* api.dump_token().write_to(file)
dump_token_write_to ==
    /\ api.state = "Authenticated"
    /\ file' = write_to(dump_token(api.tokens))
    /\ UNCHANGED <<api, login, calls, overflow_checks, probe>>

---------------------------------------------------------------------------
(* The facade: calls. Each async method runs up to its await (the request
   is on the wire), and resumes when the reply arrives. *)

\* a task may start a call: the instance exists and the task is not in one
CanCall(t) == api.state = "Authenticated" /\ calls[t].pc = "idle"

\* the task has built its TuyaRequest from the held tokens and posted it
Sent(t, op, command) ==
    [calls EXCEPT ![t] = Awaiting(op, request_of(command, api.tokens))]

scan ==
    \E t \in Tasks :
        /\ CanCall(t)
        /\ calls' = Sent(t, "scan", Discovery)
        /\ UNCHANGED <<api, login, file, overflow_checks, probe>>

query ==
    \E t \in Tasks, light \in KnownLights :
        /\ CanCall(t)
        /\ calls' = Sent(t, "query", query_command(light))
        /\ UNCHANGED <<api, login, file, overflow_checks, probe>>

set_state ==
    \E t \in Tasks, light \in KnownLights, st \in {StateOn, StateOff} :
        /\ CanCall(t)
        /\ calls' = Sent(t, "set_state", set_state_command(light, st))
        /\ UNCHANGED <<api, login, file, overflow_checks, probe>>

set_brightness ==
    \E t \in Tasks, light \in KnownLights, brightness \in SessionBrightness :
        /\ CanCall(t)
        /\ calls' = Sent(t, "set_brightness", set_brightness_command(light, brightness))
        /\ UNCHANGED <<api, login, file, overflow_checks, probe>>

set_color ==
    \E t \in Tasks, light \in KnownLights, color \in SessionColors :
        /\ CanCall(t)
        /\ calls' = Sent(t, "set_color", set_color_command(light, color))
        /\ UNCHANGED <<api, login, file, overflow_checks, probe>>

\* the argument expression is evaluated first: on a panic nothing is sent
set_color_temperature ==
    \E t \in Tasks, light \in KnownLights, temperature \in SessionKelvins :
        LET v == set_color_temperature_value(temperature, overflow_checks)
        IN  /\ CanCall(t)
            /\ calls' = IF v.panicked
                        THEN [calls EXCEPT ![t] = Panicked]
                        ELSE Sent(t, "set_color_temperature",
                                  set_color_temperature_command(light, v.temperature))
            /\ UNCHANGED <<api, login, file, overflow_checks, probe>>

\* the result of a call from the reply to its request
call_result(op, reply) ==
    CASE op = "scan"  -> scan_result(reply)
      [] op = "query" -> query_result(reply)
      [] OTHER        -> send_state_command_result(reply)

\* the reply arrives: recv_json / recv_string completes and the call returns
Receive ==
    \E t \in Tasks, reply \in SessionSkillReplies :
        /\ calls[t].pc = "awaiting"
        /\ calls' = [calls EXCEPT ![t] = Done(calls[t].op, call_result(calls[t].op, reply))]
        /\ UNCHANGED <<api, login, file, overflow_checks, probe>>

\* the caller takes the result and may call again
Return ==
    \E t \in Tasks :
        /\ calls[t].pc = "done"
        /\ calls' = [calls EXCEPT ![t] = Idle]
        /\ UNCHANGED <<api, login, file, overflow_checks, probe>>

Next ==
    \/ new
    \/ from_token_read_from
    \/ dump_token_write_to
    \/ scan
    \/ query
    \/ set_state
    \/ set_brightness
    \/ set_color
    \/ set_color_temperature
    \/ Receive
    \/ Return

Spec == Init /\ [][Next]_vars

---------------------------------------------------------------------------
(* The pure functions, each applied once to an input drawn by the initial
   state: the request a setter puts on the wire, the encoder, and the three
   decoders. *)

ProbeLight == Light("Lamp", "dev1")
ProbeTokens == from_token("tok123")
DeviceIds == {"dev1", "dev2"}
ProbeAccessTokens == {"", "tok123", "tok456"}

ProbeCommands ==
    {Discovery}
    \cup {TurnOnOff(id, st) : id \in DeviceIds, st \in {StateOn, StateOff}}
    \cup {SetBrightness(id, b) : id \in DeviceIds, b \in {0, 50, 100}}
    \cup {QueryDevice(id) : id \in DeviceIds}
    \cup {SetColor(id, c) : id \in DeviceIds,
                            c \in {HsbColor(0, 0, 0), HsbColor(120, 100, 50)}}
    \cup {SetColorTemperature(id, t) : id \in DeviceIds,
                                       t \in {U32(1000), U32(10000), U32Max}}

\* login bodies: every combination of present, missing and ill-typed members
LoginObjects ==
    {a @@ r @@ t @@ e @@ m @@ st :
        a  \in OptionalMember("access_token", {JStr("tok123"), JStr(""), JNull, JNum(U32(7))}),
        r  \in OptionalMember("refresh_token", {JStr("r1"), JNull, JNum(U32(7))}),
        t  \in OptionalMember("token_type", {JStr("bearer")}),
        e  \in OptionalMember("expires_in", {JNum(U32(864000)), JStr("soon")}),
        m  \in OptionalMember("errorMsg", {JStr("bad password"), JNum(U32(7))}),
        st \in OptionalMember("responseStatus", {JStr("error")})}
LoginReplies ==
    {TransportFailure, MalformedBody} \cup {JsonBody(o) : o \in LoginObjects}

\* device records: lights, a light without its data, other device kinds, and
\* a record without the tag
DeviceRecords ==
    {LightRecord("dev1", "Lamp"), LightRecord("dev2", "Desk"),
     [dev_type |-> JStr("light"), id |-> JStr("dev3"), name |-> JStr("Bare")],
     [dev_type |-> JStr("curtain"), id |-> JStr("dev4"), name |-> JStr("Blind")],
     [dev_type |-> JStr("Unknown"), id |-> JStr("dev5"), name |-> JStr("Thing")],
     [id |-> JStr("dev6"), name |-> JStr("Untagged")]}
DeviceLists == UNION {[1..n -> DeviceRecords] : n \in 0..MaxDevices}
ScanReplies ==
    {TransportFailure, MalformedBody, AckBody("SUCCESS")}
    \cup {ScanBody(l) : l \in DeviceLists}

AckCodes == {"SUCCESS", "TargetOffline", "FrequentlyInvoke", "success"}
AckReplies ==
    {TransportFailure, MalformedBody, ScanBody(<<>>),
     JsonBody([header |-> [message |-> JStr("no code")]])}
    \cup {AckBody(c) : c \in AckCodes}

Pending(fn, input) == [fn |-> fn, input |-> input, done |-> FALSE]
Applied(output) == [fn |-> probe.fn, input |-> probe.input, done |-> TRUE, output |-> output]

InitPure ==
    /\ api = Unauthenticated
    /\ login = [attempted |-> FALSE]
    /\ file = [exists |-> FALSE, text |-> ""]
    /\ calls = [t \in Tasks |-> Idle]
    /\ overflow_checks \in BOOLEAN
    /\ \/ \E b \in 0..U8Max : probe = Pending("set_brightness", b)
       \/ \E k \in 0..MaxKelvin : probe = Pending("set_color_temperature", k)
       \/ \E c \in ProbeCommands, a \in ProbeAccessTokens :
              probe = Pending("serialize", TuyaRequest(c, a))
       \/ \E r \in LoginReplies : probe = Pending("new", r)
       \/ \E r \in ScanReplies : probe = Pending("scan", r)
       \/ \E r \in AckReplies : probe = Pending("send_state_command", r)

CanApply(fn) == probe.fn = fn /\ ~probe.done
Others == <<api, login, file, calls, overflow_checks>>

\* set_brightness(light, b): the request it puts on the wire
apply_set_brightness ==
    /\ CanApply("set_brightness")
    /\ probe' = Applied(serialize(request_of(
                    set_brightness_command(ProbeLight, probe.input), ProbeTokens)))
    /\ UNCHANGED Others

\* set_color_temperature(light, k): a panic, or the request on the wire
apply_set_color_temperature ==
    /\ CanApply("set_color_temperature")
    /\ LET v == set_color_temperature_value(probe.input, overflow_checks)
       IN  probe' = Applied(
               IF v.panicked
               THEN [panicked |-> TRUE]
               ELSE [panicked |-> FALSE,
                     wire |-> serialize(request_of(
                         set_color_temperature_command(ProbeLight, v.temperature),
                         ProbeTokens))])
    /\ UNCHANGED Others

apply_serialize ==
    /\ CanApply("serialize")
    /\ probe' = Applied(serialize(probe.input))
    /\ UNCHANGED Others

apply_new ==
    /\ CanApply("new")
    /\ probe' = Applied(new_result(probe.input))
    /\ UNCHANGED Others

apply_scan ==
    /\ CanApply("scan")
    /\ probe' = Applied(scan_result(probe.input))
    /\ UNCHANGED Others

apply_send_state_command ==
    /\ CanApply("send_state_command")
    /\ probe' = Applied(send_state_command_result(probe.input))
    /\ UNCHANGED Others

NextPure ==
    \/ apply_set_brightness
    \/ apply_set_color_temperature
    \/ apply_serialize
    \/ apply_new
    \/ apply_scan
    \/ apply_send_state_command

SpecPure == InitPure /\ [][NextPure]_vars

---------------------------------------------------------------------------
(* Properties *)

\* C1: for every command variant and every access token, the serialized
\* request has payloadVersion 1, the namespace and name of the mapping
\* table, and a payload holding accessToken, devId exactly when the variant
\* carries a device, and exactly the variant's extra member.
C1_EncoderMapping ==
    (probe.fn = "serialize" /\ probe.done) =>
        LET cmd   == probe.input.command
            v     == cmd.variant
            token == JStr(probe.input.access_token)
            dev   == JStr(cmd.device_id)
            names == CASE v = "Discovery"           -> <<"discovery", "Discovery">>
                       [] v = "TurnOnOff"           -> <<"control", "turnOnOff">>
                       [] v = "SetBrightness"       -> <<"control", "brightnessSet">>
                       [] v = "QueryDevice"         -> <<"query", "QueryDevice">>
                       [] v = "SetColor"            -> <<"control", "colorSet">>
                       [] v = "SetColorTemperature" -> <<"control", "colorTemperatureSet">>
            payload ==
                CASE v = "Discovery" -> [accessToken |-> token]
                  [] v = "TurnOnOff" ->
                        [accessToken |-> token, devId |-> dev,
                         value |-> IF cmd.state = StateOn THEN <<"string", "1">>
                                                         ELSE <<"string", "0">>]
                  [] v = "SetBrightness" ->
                        [accessToken |-> token, devId |-> dev,
                         value |-> <<"number", <<0, cmd.brightness>>>>]
                  [] v = "QueryDevice" -> [accessToken |-> token, devId |-> dev]
                  [] v = "SetColor" ->
                        [accessToken |-> token, devId |-> dev,
                         color |-> [hue        |-> <<"number", <<0, cmd.color.hue>>>>,
                                    saturation |-> <<"number", <<0, cmd.color.saturation>>>>,
                                    brightness |-> <<"number", <<0, cmd.color.brightness>>>>]]
                  [] v = "SetColorTemperature" ->
                        [accessToken |-> token, devId |-> dev,
                         value |-> <<"number", cmd.temperature>>]
        IN  /\ probe.output.header =
                   [payloadVersion |-> 1, namespace |-> names[1], name |-> names[2]]
            /\ probe.output.payload = payload

\* a TurnOnOff{dev1, On} request with token tok123 has been serialized
C1_Witness ==
    /\ probe.fn = "serialize" /\ probe.done
    /\ probe.input = TuyaRequest(TurnOnOff("dev1", StateOn), "tok123")
    /\ probe.output.header.name = "turnOnOff"
    /\ probe.output.payload.value = JStr("1")

\* C2: a discovery response mixing light records with records of any other
\* dev_type makes scan succeed with exactly the light records, in order,
\* id and name unchanged; other kinds are dropped and never fail the call.
C2_NonLightDropped ==
    (/\ probe.fn = "scan" /\ probe.done
     /\ probe.input.transport = "ok" /\ probe.input.wellformed
     /\ Has(probe.input.object, "payload")
     /\ \E i, j \in DOMAIN probe.input.object.payload.devices :
           /\ Has(probe.input.object.payload.devices[i], "dev_type")
           /\ Has(probe.input.object.payload.devices[j], "dev_type")
           /\ probe.input.object.payload.devices[i].dev_type = JStr("light")
           /\ probe.input.object.payload.devices[j].dev_type # JStr("light")
     /\ \A i \in DOMAIN probe.input.object.payload.devices :
           LET r == probe.input.object.payload.devices[i]
           IN  /\ IsString(r, "dev_type")
               /\ r.dev_type = JStr("light") => Has(r, "data"))
    => LET lights == SelectSeq(probe.input.object.payload.devices,
                               LAMBDA r : r.dev_type = JStr("light"))
       IN  /\ probe.output.ok
           /\ probe.output.value =
                  [i \in DOMAIN lights |-> Light(lights[i].name[2], lights[i].id[2])]

\* C3: an acknowledgement with code SUCCESS gives Ok(()), and every other
\* code string, known to the decoder or not, gives an Api error carrying
\* that code.
C3_AckMapping ==
    (/\ probe.fn = "send_state_command" /\ probe.done
     /\ probe.input.transport = "ok" /\ probe.input.wellformed
     /\ Has(probe.input.object, "header")
     /\ IsString(probe.input.object.header, "code"))
    => LET code == probe.input.object.header.code[2]
       IN  IF code = "SUCCESS"
           THEN probe.output = Ok(Unit)
           ELSE probe.output = Err(Error("Api", code))

\* C4: login decoding tries the success shape first and the error shape
\* second: a body with the token fields decodes to those tokens (also when
\* the error fields are present); a body without access_token that has
\* errorMsg and responseStatus gives an Api error carrying errorMsg; a body
\* of neither shape gives a Deserializing error.
C4_LoginDecoding ==
    (probe.fn = "new" /\ probe.done /\ probe.input.transport = "ok") =>
        LET o == probe.input.object
            tokenShape ==
                /\ probe.input.wellformed
                /\ IsString(o, "access_token")
                /\ IsOptString(o, "refresh_token")
                /\ IsOptString(o, "token_type")
                /\ IsOptInt(o, "expires_in")
            errorShape ==
                /\ probe.input.wellformed
                /\ IsString(o, "errorMsg")
                /\ IsString(o, "responseStatus")
        IN  /\ tokenShape =>
                /\ probe.output.ok
                /\ probe.output.value.access_token = o.access_token[2]
                /\ probe.output.value.refresh_token = OptField(o, "refresh_token")
                /\ probe.output.value.token_type = OptField(o, "token_type")
                /\ probe.output.value.expires_in = OptField(o, "expires_in")
            /\ (errorShape /\ ~Has(o, "access_token")) =>
                probe.output = Err(Error("Api", o.errorMsg[2]))
            /\ (~tokenShape /\ ~errorShape) =>
                (~probe.output.ok /\ probe.output.error.kind = "Deserializing")

\* a body holding both the token fields and the error fields was decoded to
\* its tokens
C4_Witness ==
    /\ probe.fn = "new" /\ probe.done
    /\ probe.input.transport = "ok" /\ probe.input.wellformed
    /\ Has(probe.input.object, "errorMsg")
    /\ Has(probe.input.object, "responseStatus")
    /\ probe.output.ok
    /\ probe.output.value.access_token = "tok123"

\* C5: on the command endpoint a response body that is not valid JSON, or
\* that lacks the expected shape, is reported as the Deserializing kind.
C5_BadBodyIsDeserializing ==
    (/\ probe.fn \in {"scan", "send_state_command"} /\ probe.done
     /\ probe.input.transport = "ok"
     /\ \/ ~probe.input.wellformed
        \/ probe.fn = "scan" /\ ~Has(probe.input.object, "payload")
        \/ probe.fn = "send_state_command" /\ ~Has(probe.input.object, "header"))
    => (~probe.output.ok /\ probe.output.error.kind = "Deserializing")

\* C6 as stated: set_brightness sends brightnessSet with the value
\* round(b / 255 * 100), rounded to nearest.
C6_BrightnessRounded ==
    (probe.fn = "set_brightness" /\ probe.done) =>
        /\ probe.output.header.name = "brightnessSet"
        /\ probe.output.payload.value = JNum(U32((probe.input * 200 + 255) \div 510))

\* C6 amended: set_brightness sends brightnessSet with the value
\* floor(b / 255 * 100): the largest integer v with v * 255 <= b * 100.
C6_BrightnessTruncated ==
    (probe.fn = "set_brightness" /\ probe.done) =>
        /\ probe.output.header.name = "brightnessSet"
        /\ \E v \in 0..100 :
              /\ probe.output.payload.value = JNum(U32(v))
              /\ v * 255 <= probe.input * 100
              /\ probe.input * 100 < (v + 1) * 255
        /\ probe.input = 0 => probe.output.payload.value = JNum(U32(0))
        /\ probe.input = 128 => probe.output.payload.value = JNum(U32(50))
        /\ probe.input = 255 => probe.output.payload.value = JNum(U32(100))

\* brightness 2 was sent as 0 (0.78 truncated), where rounding gives 1
C6_Witness ==
    /\ probe.fn = "set_brightness" /\ probe.done
    /\ probe.input = 2
    /\ probe.output.payload.value = JNum(U32(0))

\* C7: for k >= 2700 the value sent by set_color_temperature is the
\* truncation of 1000 + ((min(k, 6500) - 2700) / 3800) * 9000.
C7_TemperatureFormula ==
    (probe.fn = "set_color_temperature" /\ probe.done /\ probe.input >= 2700) =>
        /\ ~probe.output.panicked
        /\ probe.output.wire.payload.value =
               JNum(U32(1000 + ((min(probe.input, 6500) - 2700) * 9000) \div 3800))

\* C8: the converters are total and land in the vendor range: the percent
\* is in [0, 100]; for every Kelvin input, also below 2700, the conversion
\* completes and the value sent is in [1000, 10000].
C8_ConvertersTotalInRange ==
    /\ (probe.fn = "set_brightness" /\ probe.done) =>
           \E v \in 0..100 : probe.output.payload.value = JNum(U32(v))
    /\ (probe.fn = "set_color_temperature" /\ probe.done) =>
           /\ ~probe.output.panicked
           /\ \E v \in 1000..10000 : probe.output.wire.payload.value = JNum(U32(v))

\* C9: every request sent to the command endpoint carries a non-empty
\* accessToken.
C9_TokenNonEmpty ==
    \A t \in Tasks :
        calls[t].pc = "awaiting" => calls[t].wire.payload.accessToken # JStr("")

\* C10: once the instance exists its tokens never change, whatever calls
\* start, are in flight, succeed or fail, and every request sent carries
\* exactly the held access token.
C10_TokensImmutable ==
    [][/\ api.state = "Authenticated" => api' = api
       /\ \A t \in Tasks :
             calls'[t].pc = "awaiting" =>
                 /\ calls'[t].request.access_token = api'.tokens.access_token
                 /\ calls'[t].wire.payload.accessToken = JStr(api'.tokens.access_token)
      ]_vars

\* two calls overlap on the instance built by new: one is in flight with the
\* token, another has failed, and the token has been dumped to the file
C10_Witness ==
    /\ api.state = "Authenticated" /\ login.attempted
    /\ file = write_to(api.tokens.access_token)
    /\ \E t1, t2 \in Tasks :
          /\ t1 # t2
          /\ calls[t1].pc = "awaiting"
          /\ calls[t1].request.access_token = "tok123"
          /\ calls[t2].pc = "done"
          /\ ~calls[t2].result.ok

===========================================================================
